---- MODULE Spec2Model ----
(***************************************************************************)
(* A model of src/src/main.ts, the "what day is it today" Slack bot.       *)
(*                                                                         *)
(* Strings are sequences of one-character strings.  The Japanese           *)
(* characters of the source are written with ASCII stand-ins:              *)
(*   "Ki" "Gen" "Zen"  the three characters of the before-epoch prefix     *)
(*   "Nen"             the year suffix character                           *)
(* The regular expressions of the source are translated to matchers over   *)
(* these sequences (leftmost match, greedy quantifiers, global replace).   *)
(***************************************************************************)
EXTENDS Integers, Sequences, FiniteSets, TLC

VARIABLES
    text,        \* cleanWikiText: the argument
    cleaned,     \* cleanWikiText: the returned string, or NotCalled
    array,       \* getRandomItems: the argument array
    count,       \* getRandomItems: the argument count
    shuffled,    \* getRandomItems: the local copy being shuffled
    loopI,       \* getRandomItems: the loop index i
    draws,       \* getRandomItems: the values j drawn so far, in order
    result,      \* getRandomItems: the returned array, or NotCalled
    samplePc,    \* getRandomItems: "entry", "loop" or "done"
    items,       \* sortByYear: the argument array as it was at the call
    sortedItems, \* sortByYear: the array after the sort (also returned), or NotCalled
    info,        \* formatSlackMessage: the argument
    formatted,   \* formatSlackMessage: the returned message, or NotCalled
    webhookUrl,  \* the script property SLACK_WEBHOOK_URL ("null" when missing)
    mainPc,      \* main: the network call it is about to make, or "done"
    requests,    \* the HTTP requests made so far, in order
    posts,       \* the postToSlack calls made so far, in order
    phpOutcome,  \* what the anniversary page fetch did
    wikiOutcome, \* what the wiki fetch and parse did
    flowerOutcome,  \* what the flower lookup did
    digestResponse, \* what the HTTP post of the digest did
    noticeResponse, \* what the HTTP post of the error notice did
    phpInfo,     \* fetchTodayInfo: phpInfo.events
    wikiInfo,    \* fetchTodayInfo: wikiInfo
    todayInfo,   \* main: todayInfo, NullInfo for null
    message,     \* main: message, or NotCalled
    errorLog,    \* the errors written with Logger.log, in order
    escaped,     \* an exception left main
    given,       \* getRandomItems: the argument array as it was at the call
    content,     \* parseTodayInfo, parseWikipediaContent: the page body
    parsedToday, \* parseTodayInfo: <<the returned info>>, or <<>> before the call
    parsedWiki   \* parseWikipediaContent: <<the returned result>>, or <<>>

cleanVars == <<text, cleaned>>
sampleVars == <<array, count, shuffled, loopI, draws, result, samplePc, given>>
sortVars == <<items, sortedItems>>
formatVars == <<info, formatted>>
mainVars == <<webhookUrl, mainPc, requests, posts, phpOutcome, wikiOutcome,
              flowerOutcome, digestResponse, noticeResponse, phpInfo, wikiInfo,
              todayInfo, message, errorLog, escaped>>
parseVars == <<content, parsedToday, parsedWiki>>
vars == <<cleanVars, sampleVars, sortVars, formatVars, mainVars, parseVars>>

NotCalled == <<"not called">>

-----------------------------------------------------------------------------
(* String helpers                                                          *)

Min(a, b) == IF a <= b THEN a ELSE b

\* The strings xs[1] \o xs[2] \o ...
RECURSIVE Concat(_)
Concat(xs) == IF xs = <<>> THEN <<>> ELSE Head(xs) \o Concat(Tail(xs))

\* p occurs in s at position i
IsAt(s, i, p) ==
    /\ i >= 1
    /\ i + Len(p) - 1 <= Len(s)
    /\ SubSeq(s, i, i + Len(p) - 1) = p

\* p occurs somewhere in s (String.prototype.includes)
Includes(s, p) == \E i \in 1..(Len(s) + 1) : IsAt(s, i, p)

\* The first position k >= i with s[k] \in stop, or Len(s)+1: the end of the
\* greedy run [^stop]* that starts at i.
RECURSIVE RunEnd(_, _, _)
RunEnd(s, i, stop) ==
    IF i > Len(s) \/ s[i] \in stop THEN i ELSE RunEnd(s, i + 1, stop)

-----------------------------------------------------------------------------
(* cleanWikiText: six global replacements, then trim                       *)

WhiteSpace == {" ", "\n"}

\* A match of the rule's regular expression that starts at i: the position
\* after the match, or 0 when there is none.
\*   "piped"    /\[\[([^\]|]+)\|([^\]]+)\]\]/
\*   "link"     /\[\[([^\]]+)\]\]/
\*   "template" /\{\{[^}]+\}\}/
\*   "tag"      /<[^>]+>/
\*   "aside"    /\([^)]*\*[^)]*\)/
MatchEnd(rule, s, i) ==
    CASE rule = "piped" ->
           LET a == RunEnd(s, i + 2, {"]", "|"})
               b == RunEnd(s, a + 1, {"]"})
           IN  IF /\ IsAt(s, i, <<"[", "[">>)
                  /\ a > i + 2
                  /\ IsAt(s, a, <<"|">>)
                  /\ b > a + 1
                  /\ IsAt(s, b, <<"]", "]">>)
               THEN b + 2 ELSE 0
      [] rule = "link" ->
           LET a == RunEnd(s, i + 2, {"]"})
           IN  IF /\ IsAt(s, i, <<"[", "[">>)
                  /\ a > i + 2
                  /\ IsAt(s, a, <<"]", "]">>)
               THEN a + 2 ELSE 0
      [] rule = "template" ->
           LET a == RunEnd(s, i + 2, {"}"})
           IN  IF /\ IsAt(s, i, <<"{", "{">>)
                  /\ a > i + 2
                  /\ IsAt(s, a, <<"}", "}">>)
               THEN a + 2 ELSE 0
      [] rule = "tag" ->
           LET a == RunEnd(s, i + 1, {">"})
           IN  IF /\ IsAt(s, i, <<"<">>)
                  /\ a > i + 1
                  /\ IsAt(s, a, <<">">>)
               THEN a + 1 ELSE 0
      [] rule = "aside" ->
           LET a == RunEnd(s, i + 1, {")"})
           IN  IF /\ IsAt(s, i, <<"(">>)
                  /\ IsAt(s, a, <<")">>)
                  /\ \E k \in (i + 1)..(a - 1) : s[k] = "*"
               THEN a + 1 ELSE 0

\* What the match s[i..e-1] is replaced by: '$2', '$1' or ''.
Replacement(rule, s, i, e) ==
    CASE rule = "piped" ->
           LET a == RunEnd(s, i + 2, {"]", "|"}) IN SubSeq(s, a + 1, e - 3)
      [] rule = "link" -> SubSeq(s, i + 2, e - 3)
      [] OTHER -> <<>>

\* s.replace(/rule/g, ...): leftmost matches, not overlapping, the replaced
\* text is not scanned again.
RECURSIVE ReplaceFrom(_, _, _)
ReplaceFrom(rule, s, i) ==
    IF i > Len(s) THEN <<>>
    ELSE LET e == MatchEnd(rule, s, i)
         IN  IF e = 0
             THEN <<s[i]>> \o ReplaceFrom(rule, s, i + 1)
             ELSE Replacement(rule, s, i, e) \o ReplaceFrom(rule, s, e)

ReplaceAll(rule, s) == ReplaceFrom(rule, s, 1)

\* s.replace(/^[set]+/, '')
RECURSIVE StripLeft(_, _)
StripLeft(s, set) ==
    IF s # <<>> /\ Head(s) \in set THEN StripLeft(Tail(s), set) ELSE s

\* s.replace(/[set]+$/, '')
RECURSIVE StripRight(_, _)
StripRight(s, set) ==
    IF s # <<>> /\ s[Len(s)] \in set
    THEN StripRight(SubSeq(s, 1, Len(s) - 1), set) ELSE s

\* s.replace(/^[\s-]+|[\s-]+$/g, '')
StripEnds(s) == StripRight(StripLeft(s, WhiteSpace \cup {"-"}), WhiteSpace \cup {"-"})

\* String.prototype.trim
Trim(s) == StripRight(StripLeft(s, WhiteSpace), WhiteSpace)

cleanWikiText_NoTemplateRule(t) ==
    Trim(StripEnds(ReplaceAll("aside",
        ReplaceAll("tag", ReplaceAll("link", ReplaceAll("piped", t))))))

cleanWikiText(t) ==
    Trim(StripEnds(ReplaceAll("aside", ReplaceAll("tag",
        ReplaceAll("template", ReplaceAll("link", ReplaceAll("piped", t)))))))

\* parseTodayInfo's helper of the same body
cleanText(t) == cleanWikiText(t)

-----------------------------------------------------------------------------
(* Specification of the text cleaner: the argument is any concatenation of *)
(* at most MaxFragments fragments: complete markup units, their openers    *)
(* and closers, and single characters.                                     *)

MaxFragments == 3

Fragments ==
    { <<"[", "[", "a", "]", "]">>, <<"[", "[", "a", "|", "a", "]", "]">>,
      <<"{", "{", "a", "}", "}">>, <<"<", "a", ">">>, <<"(", "*", ")">>,
      <<"[", "[">>, <<"]", "]">>, <<"{", "{">>, <<"}", "}">>,
      <<"[">>, <<"]">>, <<"{">>, <<"}">>, <<"<">>, <<">">>,
      <<"|">>, <<"(">>, <<")">>, <<"*">>, <<"-">>, <<" ">>, <<"a">> }

CleanIdle == text = <<>> /\ cleaned = NotCalled

SampleIdle ==
    /\ array = <<>> /\ count = 0 /\ shuffled = <<>> /\ loopI = 0
    /\ draws = <<>> /\ result = NotCalled /\ samplePc = "entry"
    /\ given = <<>>

ParseIdle == content = <<>> /\ parsedToday = <<>> /\ parsedWiki = <<>>

SortIdle == items = <<>> /\ sortedItems = NotCalled

Undefined == <<"undefined">>

FormatIdle ==
    /\ info = [date |-> <<>>, events |-> <<>>, historical |-> <<>>,
                births |-> <<>>, birthFlower |-> Undefined]
    /\ formatted = NotCalled

NullInfo ==
    [date |-> <<"null">>, events |-> <<>>, historical |-> <<>>,
     births |-> <<>>, birthFlower |-> Undefined]

NoWikiInfo == [historical |-> <<>>, births |-> <<>>]

MainIdle ==
    /\ webhookUrl = "url" /\ mainPc = "idle"
    /\ requests = <<>> /\ posts = <<>>
    /\ phpOutcome = "none" /\ wikiOutcome = "none" /\ flowerOutcome = "none"
    /\ digestResponse = "none" /\ noticeResponse = "none"
    /\ phpInfo = <<>> /\ wikiInfo = NoWikiInfo
    /\ todayInfo = NullInfo /\ message = NotCalled
    /\ errorLog = <<>> /\ escaped = FALSE

InitClean ==
    /\ SampleIdle /\ SortIdle /\ FormatIdle /\ MainIdle /\ ParseIdle
    /\ \E n \in 0..MaxFragments : \E fs \in [1..n -> Fragments] : text = Concat(fs)
    /\ cleaned = NotCalled

CallCleanWikiText ==
    /\ cleaned = NotCalled
    /\ cleaned' = cleanWikiText(text)
    /\ UNCHANGED <<text, sampleVars, sortVars, formatVars, mainVars, parseVars>>

NextClean == CallCleanWikiText

SpecClean == InitClean /\ [][NextClean]_vars

(* Markup left in a string *)
HasTag(s) ==
    \E a \in 1..Len(s) : \E b \in (a + 2)..Len(s) :
        /\ s[a] = "<"
        /\ s[b] = ">"
        /\ \A k \in (a + 1)..(b - 1) : s[k] # ">"

HasResidualMarkup(s) ==
    \/ Includes(s, <<"[", "[">>)
    \/ Includes(s, <<"]", "]">>)
    \/ Includes(s, <<"{", "{">>)
    \/ Includes(s, <<"}", "}">>)
    \/ HasTag(s)

MarkupChars == {"[", "]", "{", "}", "<", ">"}

MarkupUnits ==
    { <<(<<"[", "[">>), (<<"]", "]">>)>>,
      <<(<<"{", "{">>), (<<"}", "}">>)>>,
      <<(<<"<">>), (<<">">>)>> }

\* s[i..] is plain text and complete markup units [[p]], {{p}}, <p> whose
\* content p is non-empty plain text: nothing unbalanced, empty or nested.
RECURSIVE FlatFrom(_, _)
FlatFrom(s, k) ==
    IF k > Len(s) THEN TRUE
    ELSE IF s[k] \notin MarkupChars THEN FlatFrom(s, k + 1)
    ELSE \E u \in MarkupUnits :
            LET a == RunEnd(s, k + Len(u[1]), MarkupChars)
            IN  /\ IsAt(s, k, u[1])
                /\ a > k + Len(u[1])
                /\ IsAt(s, a, u[2])
                /\ FlatFrom(s, a + Len(u[2]))

FlatMarkup(s) == FlatFrom(s, 1)

\* C10 as stated: whatever the input, the cleaned text holds no "[[", "]]",
\* "{{", "}}" and no <...> tag.
C10_NoResidualForAnyInput ==
    cleaned # NotCalled => ~HasResidualMarkup(cleaned)

\* C10 amended: the cleaned text never holds a non-empty <...> tag, and it
\* holds no "[[", "]]", "{{", "}}" when the input is plain text and complete,
\* non-nested markup units with non-empty plain content.
C10_NoResidualForFlatMarkup ==
    cleaned # NotCalled =>
        /\ ~HasTag(cleaned)
        /\ FlatMarkup(text) => ~HasResidualMarkup(cleaned)

\* a piped link, a template and a tag were cleaned to the link's display text
C10_Witness ==
    /\ cleaned = <<"a">>
    /\ FlatMarkup(text)
    /\ Includes(text, <<"[", "[", "a", "|">>)
    /\ Includes(text, <<"}", "}">>)
    /\ Includes(text, <<"<">>)

-----------------------------------------------------------------------------
(* getRandomItems: a Fisher-Yates shuffle of a copy, then a prefix.  One   *)
(* step per value drawn from Math.random.                                  *)

MaxArray == 4
MaxCount == 3

Elems == {"a", "b", "c"}

\* if (array.length <= count) return array;
ReturnsInput_Strict(n, c) == n < c

ReturnsInput(n, c) == n <= c

\* [shuffled[i], shuffled[j]] = [shuffled[j], shuffled[i]], 1-based
Swap_Overwrite(s, a, b) == [s EXCEPT ![a] = s[b]]

Swap(s, a, b) == [s EXCEPT ![a] = s[b], ![b] = s[a]]

ShuffledIsCopy_Alias == FALSE

\* const shuffled = [...array]: the loop swaps in a copy, not in the argument
ShuffledIsCopy == TRUE

DrawRange_Exclusive(i) == 0..(i - 1)

\* Math.floor(Math.random() * (i + 1)): any of 0, ..., i
DrawRange(i) == 0..i

\* shuffled.slice(0, count)
Slice(s, from, to) == SubSeq(s, from + 1, Min(to, Len(s)))

InitSample ==
    /\ CleanIdle /\ SortIdle /\ FormatIdle /\ MainIdle /\ ParseIdle
    /\ \E n \in 0..MaxArray : array \in [1..n -> Elems]
    /\ count \in 0..MaxCount
    /\ shuffled = <<>>
    /\ loopI = 0
    /\ draws = <<>>
    /\ result = NotCalled
    /\ samplePc = "entry"
    /\ given = array

\* the early return of the input array itself
ReturnInput ==
    /\ samplePc = "entry"
    /\ ReturnsInput(Len(array), count)
    /\ result' = array
    /\ samplePc' = "done"
    /\ UNCHANGED <<array, given, count, shuffled, loopI, draws, cleanVars, sortVars, formatVars, mainVars, parseVars>>

\* const shuffled = [...array]; i = shuffled.length - 1
CopyArray ==
    /\ samplePc = "entry"
    /\ ~ReturnsInput(Len(array), count)
    /\ shuffled' = array
    /\ loopI' = Len(array) - 1
    /\ samplePc' = "loop"
    /\ UNCHANGED <<array, given, count, draws, result, cleanVars, sortVars, formatVars, mainVars, parseVars>>

\* one iteration: j = Math.floor(Math.random() * (i + 1)) is any of 0..i
ShuffleStep ==
    /\ samplePc = "loop"
    /\ loopI > 0
    /\ \E j \in DrawRange(loopI) :
          /\ shuffled' = Swap(shuffled, loopI + 1, j + 1)
          /\ draws' = Append(draws, j)
    /\ array' = IF ShuffledIsCopy THEN array ELSE shuffled'
    /\ loopI' = loopI - 1
    /\ UNCHANGED <<given, count, result, samplePc, cleanVars, sortVars, formatVars, mainVars, parseVars>>

\* return shuffled.slice(0, count)
ReturnSlice ==
    /\ samplePc = "loop"
    /\ loopI = 0
    /\ result' = Slice(shuffled, 0, count)
    /\ samplePc' = "done"
    /\ UNCHANGED <<array, given, count, shuffled, loopI, draws, cleanVars, sortVars, formatVars, mainVars, parseVars>>

NextSample == ReturnInput \/ CopyArray \/ ShuffleStep \/ ReturnSlice

SpecSample == InitSample /\ [][NextSample]_vars

\* r takes each of its elements from a position of a, no position twice
DrawnFromDistinctPositions(r, a) ==
    \E f \in [1..Len(r) -> 1..Len(a)] :
        /\ \A k \in 1..Len(r) : r[k] = a[f[k]]
        /\ \A k, m \in 1..Len(r) : k # m => f[k] # f[m]

\* C1: with more than count elements, getRandomItems returns exactly count
\* elements, each an element of the input and no input position used twice,
\* whatever the draws.
C1_ExactlyCountDistinctPositions ==
    (samplePc = "done" /\ Len(array) > count) =>
        /\ Len(result) = count
        /\ DrawnFromDistinctPositions(result, array)

\* a shuffle that returned two elements which are not the input's prefix
C1_Witness ==
    /\ samplePc = "done"
    /\ Len(array) > count
    /\ count = 2
    /\ Len(draws) = Len(array) - 1
    /\ result # SubSeq(array, 1, 2)

\* C2: with at most count elements, getRandomItems returns the input list
\* unchanged, and draws nothing.
C2_ShortInputReturnedUnchanged ==
    (samplePc = "done" /\ Len(array) <= count) =>
        /\ result = array
        /\ draws = <<>>

\* a two-element list returned for count two or three
C2_Witness ==
    /\ samplePc = "done"
    /\ Len(array) = 2
    /\ array[1] # array[2]
    /\ count >= 2
    /\ result = array

\* C12: getRandomItems never changes its argument: during and after the
\* call the input array holds the elements it held at the call, in the same
\* order, in the early-return branch and in the shuffle branch.
C12_InputNotMutated ==
    /\ array = given
    /\ samplePc = "done" =>
          /\ Len(given) <= count => draws = <<>> /\ result = given
          /\ Len(given) > count => Len(draws) = Len(given) - 1

\* a shuffle that left its copy in another order than the input, which is
\* as it was
C12_Witness ==
    /\ samplePc = "done"
    /\ Len(given) = 3
    /\ count = 2
    /\ Len(draws) = 2
    /\ shuffled # given
    /\ result # SubSeq(given, 1, 2)
    /\ array = given

(* The shuffle alone, on lists of distinct elements *)

\* the list "1", "2", ..., "n"
Distinct(n) == [k \in 1..n |-> ToString(k)]

InitShuffle ==
    /\ CleanIdle /\ SortIdle /\ FormatIdle /\ MainIdle /\ ParseIdle
    /\ \E n \in 0..MaxArray : array = Distinct(n)
    /\ count \in 0..MaxCount
    /\ shuffled = <<>>
    /\ loopI = 0
    /\ draws = <<>>
    /\ result = NotCalled
    /\ samplePc = "entry"
    /\ given = array

SpecShuffle == InitShuffle /\ [][NextSample]_vars

\* the array the loop leaves when its draws are d[k], d[k + 1], ...
RECURSIVE Replay(_, _, _)
Replay(sh, d, k) ==
    IF k > Len(d) THEN sh
    ELSE Replay(Swap(sh, Len(sh) - k + 1, d[k] + 1), d, k + 1)

\* the draw sequences C15 counts for n elements: a j of 0..i for each of
\* i = n - 1, ..., 1
FisherYatesDraws(n) ==
    {d \in [1..(n - 1) -> 0..(n - 1)] : \A k \in 1..(n - 1) : d[k] <= n - k}

RECURSIVE Factorial(_)
Factorial(n) == IF n <= 1 THEN 1 ELSE n * Factorial(n - 1)

\* the orderings of a list of distinct elements
PermutationsOf(xs) ==
    {p \in [1..Len(xs) -> {xs[k] : k \in 1..Len(xs)}] :
        \A k, m \in 1..Len(xs) : k # m => p[k] # p[m]}

-----------------------------------------------------------------------------
(* sortByYear: Array.prototype.sort (stable, in place) on the year that    *)
(* extractYear reads from the head of a label.                             *)

MaxItems == 3

Digits == {"0", "1", "2", "3", "4", "5", "6", "7", "8", "9"}

DigitValue(d) ==
    CASE d = "0" -> 0 [] d = "1" -> 1 [] d = "2" -> 2 [] d = "3" -> 3
      [] d = "4" -> 4 [] d = "5" -> 5 [] d = "6" -> 6 [] d = "7" -> 7
      [] d = "8" -> 8 [] d = "9" -> 9

\* parseInt of a string of decimal digits
RECURSIVE parseInt(_)
parseInt(ds) ==
    IF ds = <<>> THEN 0
    ELSE 10 * parseInt(SubSeq(ds, 1, Len(ds) - 1)) + DigitValue(ds[Len(ds)])

\* the end of the greedy run \d* that starts at k
RECURSIVE DigitsEnd(_, _)
DigitsEnd(s, k) ==
    IF k > Len(s) \/ s[k] \notin Digits THEN k ELSE DigitsEnd(s, k + 1)

\* /(\d+)Nen?:/ matched at position k: the digits, or <<>> for no match
YearAt(s, k) ==
    LET a == DigitsEnd(s, k)
        b == IF IsAt(s, a, <<"Nen">>) THEN a + 1 ELSE a
    IN  IF a > k /\ IsAt(s, b, <<":">>) THEN SubSeq(s, k, a - 1) ELSE <<>>

BcPrefix == <<"Ki", "Gen", "Zen">>

extractYear_BcNotNegated(item) ==
    LET bcMatch == IF IsAt(item, 1, BcPrefix) THEN YearAt(item, 4) ELSE <<>>
        adMatch == YearAt(item, 1)
    IN  IF bcMatch # <<>> THEN parseInt(bcMatch)
        ELSE IF adMatch # <<>> THEN parseInt(adMatch) ELSE 0

extractYear(item) ==
    LET bcMatch == IF IsAt(item, 1, BcPrefix) THEN YearAt(item, 4) ELSE <<>>
        adMatch == YearAt(item, 1)
    IN  IF bcMatch # <<>> THEN 0 - parseInt(bcMatch)
        ELSE IF adMatch # <<>> THEN parseInt(adMatch) ELSE 0

\* the comparator's result for two extracted years: yearA - yearB
CompareYears(yearA, yearB) == yearA - yearB

\* the years of the items of xs, in order
RECURSIVE Years(_)
Years(xs) ==
    IF xs = <<>> THEN <<>> ELSE <<extractYear(Head(xs))>> \o Years(Tail(xs))

\* Array.prototype.sort is a stable sort: position k is put into the sorted
\* positions after every one that does not compare greater than it
RECURSIVE InsertByYear(_, _, _)
InsertByYear(order, k, years) ==
    IF order = <<>> THEN <<k>>
    ELSE IF CompareYears(years[Head(order)], years[k]) > 0 THEN <<k>> \o order
    ELSE <<Head(order)>> \o InsertByYear(Tail(order), k, years)

RECURSIVE SortFrom(_, _, _)
SortFrom(order, k, years) ==
    IF k > Len(years) THEN order
    ELSE SortFrom(InsertByYear(order, k, years), k + 1, years)

sortByYear(xs) ==
    LET order == SortFrom(<<>>, 1, Years(xs))
    IN  [k \in 1..Len(xs) |-> xs[order[k]]]

Label1990 == <<"1", "9", "9", "0", "Nen", ":", " ", "A">>
LabelBc500 == <<"Ki", "Gen", "Zen", "5", "0", "0", "Nen", ":", " ", "B">>
Label5 == <<"5", "Nen", ":", " ", "C">>
Label5NoSuffix == <<"5", ":", " ", "D">>
LabelNoYear == <<"x", "5", "Nen", ":">>
LabelKiGen7 == <<"Ki", "Gen", "7", "Nen", ":", " ", "E">>

SortLabels ==
    {Label1990, LabelBc500, Label5, Label5NoSuffix, LabelNoYear, LabelKiGen7}

InitSort ==
    /\ CleanIdle /\ SampleIdle /\ FormatIdle /\ MainIdle /\ ParseIdle
    /\ \E n \in 0..MaxItems : items \in [1..n -> SortLabels]
    /\ sortedItems = NotCalled

CallSortByYear ==
    /\ sortedItems = NotCalled
    /\ sortedItems' = sortByYear(items)
    /\ UNCHANGED <<items, cleanVars, sampleVars, formatVars, mainVars, parseVars>>

NextSort == CallSortByYear

SpecSort == InitSort /\ [][NextSort]_vars

Occurrences(xs, x) == Cardinality({k \in 1..Len(xs) : xs[k] = x})

IsPermutationOf(xs, ys) ==
    /\ Len(xs) = Len(ys)
    /\ \A k \in 1..Len(ys) : Occurrences(xs, ys[k]) = Occurrences(ys, ys[k])

\* the year key C3 gives each label: minus the number after the
\* before-epoch prefix, the number at the head, and 0 for any other label
ClaimedYear(l) ==
    CASE l = Label1990 -> 1990
      [] l = LabelBc500 -> 0 - 500
      [] l = Label5 -> 5
      [] l = Label5NoSuffix -> 5
      [] l = LabelNoYear -> 0
      [] l = LabelKiGen7 -> 0

\* C3: sortByYear returns a permutation of its input in non-decreasing
\* order of the year key; the three labels of 1990, 500 before the epoch and
\* 5 come out as B, C, A.
C3_SortedPermutationByYear ==
    sortedItems # NotCalled =>
        /\ IsPermutationOf(sortedItems, items)
        /\ \A k \in 1..Len(items) : extractYear(items[k]) = ClaimedYear(items[k])
        /\ \A k \in 1..(Len(sortedItems) - 1) :
              ClaimedYear(sortedItems[k]) <= ClaimedYear(sortedItems[k + 1])
        /\ items = <<Label1990, LabelBc500, Label5>>
              => sortedItems = <<LabelBc500, Label5, Label1990>>

\* the example of the claim was sorted
C3_Witness ==
    /\ items = <<Label1990, LabelBc500, Label5>>
    /\ sortedItems = <<LabelBc500, Label5, Label1990>>

-----------------------------------------------------------------------------
(* formatSlackMessage: the message as its lines, that is, the returned     *)
(* string split at "\n".                                                   *)

MaxList == 6

EventsShown == 5
HistoricalShown == 5
BirthsShown == 5

Line(kind, t) == [kind |-> kind, text |-> t]

BlankLine == Line("blank", <<>>)

RECURSIVE Bullets(_)
Bullets(xs) ==
    IF xs = <<>> THEN <<>> ELSE <<Line("bullet", Head(xs))>> \o Bullets(Tail(xs))

\* a JavaScript string or undefined, used as a condition
Truthy(v) == v # Undefined /\ v # <<>>

Section_NoCap(name, list, cap) ==
    IF Len(list) > 0
    THEN <<Line("header", <<name>>)>> \o Bullets(list) \o <<BlankLine>>
    ELSE <<>>

\* if (list.length > 0) { header; a bullet for each of list.slice(0, cap); '\n' }
Section(name, list, cap) ==
    IF Len(list) > 0
    THEN <<Line("header", <<name>>)>> \o Bullets(Slice(list, 0, cap)) \o <<BlankLine>>
    ELSE <<>>

\* if (info.birthFlower) { header; one bullet; '\n' }
FlowerSection(flower) ==
    IF Truthy(flower)
    THEN <<Line("header", <<"birthFlower">>), Line("bullet", flower), BlankLine>>
    ELSE <<>>

formatSlackMessage(t) ==
    <<Line("title", t.date), BlankLine>>
    \o Section("events", t.events, EventsShown)
    \o Section("historical", t.historical, HistoricalShown)
    \o Section("births", t.births, BirthsShown)
    \o FlowerSection(t.birthFlower)
    \o <<BlankLine, Line("footer", <<>>)>>

\* a list of n distinct entries
Entries(n) == [k \in 1..n |-> <<"entry", ToString(k)>>]

InitFormat ==
    /\ CleanIdle /\ SampleIdle /\ SortIdle /\ MainIdle /\ ParseIdle
    /\ \E e, h, b \in 0..MaxList : \E f \in {Undefined, <<"rose">>} :
          info = [date |-> <<"d">>, events |-> Entries(e), historical |-> Entries(h),
                  births |-> Entries(b), birthFlower |-> f]
    /\ formatted = NotCalled

CallFormatSlackMessage ==
    /\ formatted = NotCalled
    /\ formatted' = formatSlackMessage(info)
    /\ UNCHANGED <<info, cleanVars, sampleVars, sortVars, mainVars, parseVars>>

NextFormat == CallFormatSlackMessage

SpecFormat == InitFormat /\ [][NextFormat]_vars

\* the positions of the header lines of a category
HeadersOf(msg, name) ==
    {k \in 1..Len(msg) : msg[k] = Line("header", <<name>>)}

\* the end of the run of bullet lines that starts at k
RECURSIVE BulletsEnd(_, _)
BulletsEnd(msg, k) ==
    IF k > Len(msg) \/ msg[k].kind # "bullet" THEN k ELSE BulletsEnd(msg, k + 1)

\* the texts of the bullet lines right under the header at position h
BulletsUnder(msg, h) ==
    LET e == BulletsEnd(msg, h + 1) IN [k \in 1..(e - h - 1) |-> msg[h + k].text]

\* a list category has one header exactly when its list is not empty, and
\* under it the first min(length, 5) entries, one bullet line each
ListSectionAsClaimed(msg, name, list) ==
    /\ Cardinality(HeadersOf(msg, name)) = (IF Len(list) > 0 THEN 1 ELSE 0)
    /\ \A h \in HeadersOf(msg, name) :
          /\ Len(BulletsUnder(msg, h)) = Min(Len(list), 5)
          /\ BulletsUnder(msg, h) = SubSeq(list, 1, Min(Len(list), 5))

\* C4: formatSlackMessage emits a category's header exactly when its list is
\* not empty (the flower's exactly when a flower is present), with
\* min(length, 5) bullet lines under a list header.
C4_SectionsOmittedAndCapped ==
    formatted # NotCalled =>
        /\ ListSectionAsClaimed(formatted, "events", info.events)
        /\ ListSectionAsClaimed(formatted, "historical", info.historical)
        /\ ListSectionAsClaimed(formatted, "births", info.births)
        /\ Cardinality(HeadersOf(formatted, "birthFlower"))
              = (IF info.birthFlower # Undefined THEN 1 ELSE 0)
        /\ \A h \in HeadersOf(formatted, "birthFlower") :
              BulletsUnder(formatted, h) = <<info.birthFlower>>

\* a message for six anniversaries, no historical event, one birth, no flower
C4_Witness ==
    /\ formatted # NotCalled
    /\ Len(info.events) = 6
    /\ Len(info.historical) = 0
    /\ Len(info.births) = 1
    /\ info.birthFlower = Undefined
    /\ Len(formatted) = 14

-----------------------------------------------------------------------------
(* parseTodayInfo and parseWikipediaContent: the section of the page body  *)
(* under a heading, its lines, and one regular expression per line.        *)
(* Stand-ins for the characters of the headings and the line grammar:      *)
(*   "Imi" "Nichi"         the deaths heading (and "Nichi" the optional    *)
(*                         last character of the births heading)           *)
(*   "Jin" "Butsu"         the persons sub-heading                         *)
(*   "de" "ki" "go" "to"   the events heading                              *)
(*   "Tan" "Jou"           the births heading                              *)
(*   "Ten"                 the ideographic comma before the occupation     *)
(*   "FwOpen" "FwClose"    the full-width parentheses                      *)

NoMatch == <<>>

\* the end of the greedy run [set]* that starts at i
RECURSIVE SpanEnd(_, _, _)
SpanEnd(s, i, set) ==
    IF i > Len(s) \/ s[i] \notin set THEN i ELSE SpanEnd(s, i + 1, set)

\* the first position k >= i where p occurs in s, or 0
RECURSIVE IndexFrom(_, _, _)
IndexFrom(s, p, i) ==
    IF i + Len(p) - 1 > Len(s) THEN 0
    ELSE IF IsAt(s, i, p) THEN i ELSE IndexFrom(s, p, i + 1)

\* s.split(sep) for a one-character separator
RECURSIVE Split(_, _)
Split(s, sep) ==
    LET k == RunEnd(s, 1, {sep})
    IN  IF k > Len(s) THEN <<s>>
        ELSE <<SubSeq(s, 1, k - 1)>> \o Split(SubSeq(s, k + 1, Len(s)), sep)

EventsHeading == <<"=", "=", " ", "de", "ki", "go", "to", " ", "=", "=">>
BirthsHeading == <<"=", "=", " ", "Tan", "Jou", " ", "=", "=">>
BirthdaysHeading == <<"=", "=", " ", "Tan", "Jou", "Nichi", " ", "=", "=">>
DeathsHeading == <<"=", "=", " ", "Imi", "Nichi", " ", "=", "=">>
PersonsHeading == <<"=", "=", "=", " ", "Jin", "Butsu", " ", "=", "=", "=">>

\* the headings a category's regular expression matches
Headings(kind) ==
    CASE kind = "event" -> {EventsHeading}
      [] kind = "birth" -> {BirthsHeading, BirthdaysHeading}
      [] kind = "death" -> {DeathsHeading}

\* the lookahead (?=== [^=]|$) holds at position k
SectionStop(s, k) ==
    \/ k = Len(s) + 1
    \/ /\ IsAt(s, k, <<"=", "=", " ">>)
       /\ k + 3 <= Len(s)
       /\ s[k + 3] # "="

\* the end of the lazy run [\s\S]*? that starts at k and stops at the lookahead
RECURSIVE SectionEnd(_, _)
SectionEnd(s, k) == IF SectionStop(s, k) THEN k ELSE SectionEnd(s, k + 1)

\* the leftmost match of a heading of the category: the position after it,
\* or 0 when content.match gives null
RECURSIVE HeadingEnd(_, _, _)
HeadingEnd(kind, s, i) ==
    IF i > Len(s) THEN 0
    ELSE IF \E h \in Headings(kind) : IsAt(s, i, h)
         THEN i + Len(CHOOSE h \in Headings(kind) : IsAt(s, i, h))
         ELSE HeadingEnd(kind, s, i + 1)

\* match[1] of content.match(/heading([\s\S]*?)(?=== [^=]|$)/), or NoMatch
SectionFrom(s, e) ==
    IF e = 0 THEN NoMatch ELSE <<SubSeq(s, e, SectionEnd(s, e) - 1)>>

SectionContent(kind, s) == SectionFrom(s, HeadingEnd(kind, s, 1))

\* (?:=== |$) holds at position k
RECURSIVE PersonsEnd(_, _)
PersonsEnd(s, k) ==
    IF k = Len(s) + 1 \/ IsAt(s, k, <<"=", "=", "=", " ">>) THEN k
    ELSE PersonsEnd(s, k + 1)

\* personSection[1] of section.match(/persons heading([\s\S]*?)(?:=== |$)/),
\* or NoMatch
PersonSectionFrom(section, h) ==
    IF h = 0 THEN NoMatch
    ELSE <<SubSeq(section, h + Len(PersonsHeading),
                  PersonsEnd(section, h + Len(PersonsHeading)) - 1)>>

PersonSection(section) ==
    PersonSectionFrom(section, IndexFrom(section, PersonsHeading, 1))

\* (personSection ? personSection[1] : deathsMatch[1])
PersonsOrAll(section, personSection) ==
    IF personSection # NoMatch THEN personSection[1] ELSE section

DeathsText(section) == PersonsOrAll(section, PersonSection(section))

(* The head of a line: ^\*\s*(?:\[\[)?(year)(?:\]\])?\s*-?\s*, then a body  *)
(* of at least one character.  Every quantifier of the head is greedy, and *)
(* what follows the head matches whenever one character is left for the    *)
(* body.  So the head is the greedy one when that leaves a character; when *)
(* the greedy head takes the whole line, backtracking gives back the last  *)
(* thing taken if its quantifier allows (white space, the dash, "]]", the  *)
(* year suffix, a second or later digit) and that becomes the body; a line *)
(* that ends with the bullet, "[[" or a lone digit does not match.         *)

\* p? at position a: the position after p when it is there, else a
Optional(line, a, p) == IF IsAt(line, a, p) THEN a + Len(p) ELSE a

\* where the digits start in a year that starts at ys: after Ki Gen Zen? in
\* an event line, (Ki Gen Zen?\d+Nen?|\d+Nen?); at ys in a person line
DigitsStart(kind, line, ys) ==
    IF kind = "event" /\ IsAt(line, ys, <<"Ki", "Gen">>)
    THEN Optional(line, ys + 2, <<"Zen">>)
    ELSE ys

\* the head, from the greedy positions: ys the year's start, d its digits'
\* start, a4 the digits' end, a5 the year's end, a6 the position after
\* (?:\]\])?, a9 the end of \s*-?\s*: <<year's start, year's end, body's
\* start>> or NoMatch
HeadEnd(line, ys, d, a4, a5, a6, a9) ==
    IF a4 = d THEN NoMatch
    ELSE IF a9 <= Len(line) THEN <<ys, a5, a9>>
    ELSE IF a9 > a6 THEN <<ys, a5, Len(line)>>
    ELSE IF a6 > a5 THEN <<ys, a5, Len(line) - 1>>
    ELSE IF a5 > a4 THEN <<ys, a4, Len(line)>>
    ELSE IF a4 - d >= 2 THEN <<ys, a4 - 1, Len(line)>>
    ELSE NoMatch

\* \s*-?\s*
HeadGap(line, ys, d, a4, a5, a6) ==
    HeadEnd(line, ys, d, a4, a5, a6,
            SpanEnd(line, Optional(line, SpanEnd(line, a6, WhiteSpace), <<"-">>),
                    WhiteSpace))

\* Nen? and (?:\]\])?
HeadSuffix(line, ys, d, a4, a5) ==
    HeadGap(line, ys, d, a4, a5, Optional(line, a5, <<"]", "]">>))

\* \d+
HeadDigits(line, ys, d, a4) ==
    HeadSuffix(line, ys, d, a4, Optional(line, a4, <<"Nen">>))

\* the year
HeadYear(kind, line, ys, d) == HeadDigits(line, ys, d, DigitsEnd(line, d))

\* (?:\[\[)?
HeadLink(kind, line, ys) == HeadYear(kind, line, ys, DigitsStart(kind, line, ys))

\* ^\*\s*
LineHead(kind, line) ==
    IF IsAt(line, 1, <<"*">>)
    THEN HeadLink(kind, line,
                  Optional(line, SpanEnd(line, 2, WhiteSpace), <<"[", "[">>))
    ELSE NoMatch

(* The rest of a line *)

\* the character after the parenthesis that ends a person entry
EndMark(kind) == IF kind = "birth" THEN "+" ELSE "*"

\* (?:\(\+|FwOpen\+|$) of a birth line, (?:\(\*|FwOpen\*|$) of a death line
Terminator(kind, line, r) ==
    \/ IsAt(line, r, <<"(", EndMark(kind)>>)
    \/ IsAt(line, r, <<"FwOpen", EndMark(kind)>>)
    \/ r = Len(line) + 1

\* the lazy (.+?) of the occupation ends at the first terminator
RECURSIVE FirstTerminator(_, _, _)
FirstTerminator(kind, line, r) ==
    IF Terminator(kind, line, r) THEN r ELSE FirstTerminator(kind, line, r + 1)

\* (.+?)(?:Ten(.+?))?(?:terminator) with the body ending before q, then
\* before q + 1, ...: <<the body's end, the occupation's end or 0>>
RECURSIVE PersonTail(_, _, _)
PersonTail(kind, line, q) ==
    IF IsAt(line, q, <<"Ten">>) /\ q + 1 <= Len(line)
    THEN <<q, FirstTerminator(kind, line, q + 2)>>
    ELSE IF Terminator(kind, line, q) THEN <<q, 0>>
    ELSE PersonTail(kind, line, q + 1)

\* (.+?)(?:\.\s*$|$) with the body ending before q, then before q + 1, ...
RECURSIVE EventTail(_, _)
EventTail(line, q) ==
    IF \/ q = Len(line) + 1
       \/ IsAt(line, q, <<".">>) /\ SpanEnd(line, q + 1, WhiteSpace) = Len(line) + 1
    THEN q ELSE EventTail(line, q + 1)

\* match[1], match[2], match[3] of an event line (match[3] is not there)
EventMatch(line, head, q) ==
    <<SubSeq(line, head[1], head[2] - 1), SubSeq(line, head[3], q - 1), <<>> >>

\* match[1], match[2], match[3] of a person line, <<>> for an occupation
\* that did not take part
PersonMatch(line, head, tail) ==
    << SubSeq(line, head[1], head[2] - 1),
       SubSeq(line, head[3], tail[1] - 1),
       IF tail[2] = 0 THEN <<>> ELSE SubSeq(line, tail[1] + 1, tail[2] - 1) >>

MatchRest(kind, line, head) ==
    IF head = NoMatch THEN NoMatch
    ELSE IF kind = "event" THEN EventMatch(line, head, EventTail(line, head[3] + 1))
    ELSE PersonMatch(line, head, PersonTail(kind, line, head[3] + 1))

\* line.match(the category's line expression), or NoMatch
MatchLine(kind, line) == MatchRest(kind, line, LineHead(kind, line))

\* the helper a parser cleans with: both have the same body
Clean(cleaner, t) ==
    IF cleaner = "cleanText" THEN cleanText(t) ELSE cleanWikiText(t)

MinEventLength == 10
MaxEventLength == 150
MinPersonLength == 1
MaxPersonLength == 50

\* the conditions on a cleaned event, and the label pushed
EventLabelOf(year, event) ==
    IF /\ event # <<>>
       /\ ~Includes(event, <<"I", "m", "a", "g", "e", ":">>)
       /\ ~Includes(event, <<"F", "i", "l", "e", ":">>)
       /\ ~Includes(event, <<"m", "u", "l", "t", "i", "p", "l", "e", " ",
                             "i", "m", "a", "g", "e">>)
       /\ ~Includes(event, <<"{", "{">>)
       /\ Len(event) > MinEventLength /\ Len(event) < MaxEventLength
    THEN <<year \o <<":", " ">> \o event>>
    ELSE NoMatch

\* the label pushed for an event line, or NoMatch for a line that is skipped
EventLabel(m, cleaner) == EventLabelOf(m[1], Clean(cleaner, m[2]))

\* the conditions on a cleaned person, and the label pushed
PersonLabelOf(year, person, occupation) ==
    IF person # <<>> /\ Len(person) > MinPersonLength /\ Len(person) < MaxPersonLength
    THEN <<year \o <<":", " ">> \o
             (IF occupation # <<>>
              THEN person \o <<"FwOpen">> \o occupation \o <<"FwClose">>
              ELSE person)>>
    ELSE NoMatch

\* the label pushed for a birth or death line, or NoMatch
PersonLabel(m, cleaner) ==
    PersonLabelOf(m[1], Clean(cleaner, m[2]),
                  IF m[3] # <<>> THEN Clean(cleaner, m[3]) ELSE <<>>)

\* if (match && match[2]) { ... push ... }
LabelOf(kind, m, cleaner) ==
    IF m = NoMatch THEN NoMatch
    ELSE IF kind = "event" THEN EventLabel(m, cleaner)
    ELSE PersonLabel(m, cleaner)

\* the for loop over the lines of a section: the labels pushed, in order
RECURSIVE ExtractLines(_, _, _)
ExtractLines(kind, lines, cleaner) ==
    IF lines = <<>> THEN <<>>
    ELSE LabelOf(kind, MatchLine(kind, Head(lines)), cleaner)
         \o ExtractLines(kind, Tail(lines), cleaner)

\* if (eventsMatch) { the lines of eventsMatch[1] }
LinesOf(kind, section, cleaner) ==
    IF section = NoMatch THEN <<>>
    ELSE ExtractLines(kind, Split(section[1], "\n"), cleaner)

\* one category of parseWikipediaContent or parseTodayInfo
ExtractCategory(kind, s, cleaner) ==
    LinesOf(kind, SectionContent(kind, s), cleaner)

parseWikipediaContent(s) ==
    [historical |-> ExtractCategory("event", s, "cleanWikiText"),
     births |-> ExtractCategory("birth", s, "cleanWikiText")]

\* if (deathsMatch) { the lines of the persons sub-section when the
\* section has one, of the whole section otherwise }
DeathLinesOf(section) ==
    IF section = NoMatch THEN <<>>
    ELSE ExtractLines("death", Split(DeathsText(section[1]), "\n"), "cleanText")

\* the deaths category of parseTodayInfo
ExtractDeaths(s) == DeathLinesOf(SectionContent("death", s))

parseTodayInfo(date, s) ==
    [date |-> date,
     events |-> ExtractCategory("event", s, "cleanText"),
     births |-> ExtractCategory("birth", s, "cleanText"),
     deaths |-> ExtractDeaths(s)]

(* Specification of the two parsers: the page body is at most MaxLines     *)
(* lines, each a heading or a bullet entry.                                *)

MaxLines == 4

\* "* 1900Nen - Ab": a person entry without a link, an occupation or an end mark
TopEntry == <<"*", " ", "1", "9", "0", "0", "Nen", " ", "-", " ", "A", "b">>

\* "* [[1950Nen]] - Cd, ef(*1900Nen)": a person entry as the deaths section writes it
PersonEntry ==
    <<"*", " ", "[", "[", "1", "9", "5", "0", "Nen", "]", "]", " ", "-", " ",
      "C", "d", "Ten", "e", "f", "(", "*", "1", "9", "0", "0", "Nen", ")">>

\* an event entry of the year 44 before the epoch, with a final full stop
EventEntry ==
    <<"*", " ", "Ki", "Gen", "Zen", "4", "4", "Nen", " ", "-", " ",
      "a", "b", "c", "d", "e", "f", "g", "h", "i", "j", "k", ".">>

TopLabel == <<"1", "9", "0", "0", "Nen", ":", " ", "A", "b">>

PersonEntryLabel ==
    <<"1", "9", "5", "0", "Nen", ":", " ", "C", "d", "FwOpen", "e", "f", "FwClose">>

EventEntryLabel ==
    <<"Ki", "Gen", "Zen", "4", "4", "Nen", ":", " ",
      "a", "b", "c", "d", "e", "f", "g", "h", "i", "j", "k">>

PageLines ==
    { EventsHeading, BirthdaysHeading, DeathsHeading, PersonsHeading,
      TopEntry, PersonEntry, EventEntry }

\* the lines, each ended by a line feed
RECURSIVE Page(_)
Page(ls) == IF ls = <<>> THEN <<>> ELSE Head(ls) \o <<"\n">> \o Page(Tail(ls))

InitParse ==
    /\ CleanIdle /\ SampleIdle /\ SortIdle /\ FormatIdle /\ MainIdle
    /\ \E n \in 0..MaxLines : \E ls \in [1..n -> PageLines] : content = Page(ls)
    /\ parsedToday = <<>>
    /\ parsedWiki = <<>>

CallParseTodayInfo ==
    /\ parsedToday = <<>>
    /\ parsedToday' = <<parseTodayInfo(<<"date">>, content)>>
    /\ UNCHANGED <<content, parsedWiki, cleanVars, sampleVars, sortVars, formatVars, mainVars>>

CallParseWikipediaContent ==
    /\ parsedWiki = <<>>
    /\ parsedWiki' = <<parseWikipediaContent(content)>>
    /\ UNCHANGED <<content, parsedToday, cleanVars, sampleVars, sortVars, formatVars, mainVars>>

NextParse == CallParseTodayInfo \/ CallParseWikipediaContent

SpecParse == InitParse /\ [][NextParse]_vars

\* the entry lines that are well-formed person entries, with their labels
EntryLabel(entry) == IF entry = TopEntry THEN TopLabel ELSE PersonEntryLabel

\* C11: for a page body whose deaths section holds a well-formed top-level
\* entry and then the persons sub-heading with a well-formed entry under
\* it, parseTodayInfo puts the entry of the persons sub-section in deaths,
\* and only that one.
C11_OnlyPersonsSubsectionInDeaths ==
    \A top, person \in {TopEntry, PersonEntry} :
        ( /\ parsedToday # <<>>
          /\ content = Page(<<DeathsHeading, top, PersonsHeading, person>>) )
        => parsedToday[1].deaths = <<EntryLabel(person)>>

\* a heading of level one or two starts at position k: one or two "=" at
\* the start of a line
HeadingStartsAt(s, k) ==
    /\ k <= Len(s)
    /\ k = 1 \/ s[k - 1] = "\n"
    /\ SpanEnd(s, k, {"="}) - k \in {1, 2}

\* the end of the text or the next heading of level one or two
RECURSIVE NextHeading(_, _)
NextHeading(s, k) ==
    IF k > Len(s) \/ HeadingStartsAt(s, k) THEN k ELSE NextHeading(s, k + 1)

\* the section C14 describes: from the category's heading to the next
\* heading of the same or a higher level, or the end of the text
SectionToNextHeadingFrom(s, e) ==
    IF e = 0 THEN <<>> ELSE SubSeq(s, e, NextHeading(s, e) - 1)

SectionToNextHeading(kind, s) == SectionToNextHeadingFrom(s, HeadingEnd(kind, s, 1))

\* C14: each category is extracted from the text between its heading and
\* the next heading of the same or a higher level (or the end of the text):
\* a "=== ... ===" sub-heading inside the section does not end it, and the
\* bullet entries after the sub-heading are extracted too.
C14_SectionRunsToNextHeading ==
    /\ parsedWiki # <<>> =>
          /\ parsedWiki[1].historical =
                ExtractLines("event", Split(SectionToNextHeading("event", content), "\n"),
                             "cleanWikiText")
          /\ parsedWiki[1].births =
                ExtractLines("birth", Split(SectionToNextHeading("birth", content), "\n"),
                             "cleanWikiText")
    /\ parsedToday # <<>> =>
          parsedToday[1].deaths =
              ExtractLines("death",
                           Split(DeathsText(SectionToNextHeading("death", content)), "\n"),
                           "cleanText")

-----------------------------------------------------------------------------
(* main: fetchTodayInfo, formatSlackMessage, postToSlack and the error     *)
(* notice.  One step per network call; everything main does between two    *)
(* network calls belongs to the step of the earlier call.                  *)

MaxEvents == 1
MaxWiki == 6

SampleSize == 5

WikiLabels == {Label1990, LabelBc500}

WikiLists(n) == UNION { [1..k -> WikiLabels] : k \in 0..n }

\* what parseWikipediaContent can return: two lists of labels, one of at
\* most MaxWiki entries and the other of at most one
ParsedWikiInfos ==
    { [historical |-> h, births |-> b] : h \in WikiLists(MaxWiki), b \in WikiLists(1) }
    \cup
    { [historical |-> h, births |-> b] : h \in WikiLists(1), b \in WikiLists(MaxWiki) }

\* every array the shuffle loop can leave, from the arrays S at index k
RECURSIVE ShuffleOutcomes(_, _)
ShuffleOutcomes(S, k) ==
    IF k = 0 THEN S
    ELSE ShuffleOutcomes({ Swap(sh, k + 1, j + 1) : sh \in S, j \in DrawRange(k) }, k - 1)

\* every value getRandomItems(xs, c) can return
getRandomItems(xs, c) ==
    IF ReturnsInput(Len(xs), c) THEN {xs}
    ELSE { Slice(sh, 0, c) : sh \in ShuffleOutcomes({xs}, Len(xs) - 1) }

\* C15: in the shuffle branch every j is drawn from 0..i for i = n - 1 down
\* to 1, the array the loop leaves is the one its draw sequence determines,
\* no other draw sequence leaves the same array, there are n! draw
\* sequences and n! permutations, and the arrays the loop can leave are
\* all the permutations of the input.
C15_DrawsMapOneToOneOntoPermutations ==
    (samplePc \in {"loop", "done"} /\ loopI = 0 /\ Len(given) > count) =>
        LET n == Len(given)
        IN  /\ draws \in FisherYatesDraws(n)
            /\ shuffled = Replay(given, draws, 1)
            /\ \A d \in FisherYatesDraws(n) :
                  Replay(given, d, 1) = shuffled => d = draws
            /\ Cardinality(FisherYatesDraws(n)) = Factorial(n)
            /\ Cardinality(PermutationsOf(given)) = Factorial(n)
            /\ ShuffleOutcomes({given}, n - 1) = PermutationsOf(given)

\* the shuffle of four elements that ends with the input reversed
C15_Witness ==
    /\ samplePc = "done"
    /\ given = Distinct(4)
    /\ Len(draws) = 3
    /\ shuffled = <<"4", "3", "2", "1">>

SampleThenSort_SortFirst(xs) == getRandomItems(sortByYear(xs), SampleSize)

\* sortByYear(getRandomItems(xs, 5)): every list fetchTodayInfo can store
SampleThenSort(xs) == { sortByYear(r) : r \in getRandomItems(xs, SampleSize) }

\* !webhookUrl
Falsy(v) == v \in {"null", ""}

ConfigMissing_Never(url) == FALSE

\* postToSlack: if (!webhookUrl) throw, before any request
ConfigMissing(url) == Falsy(url)

PhpFailureEndsRun_Never(outcome) == FALSE

\* fetchTodayInfo: the page fetch is inside the try whose catch returns
\* null, and main returns when it gets null
PhpFailureEndsRun(outcome) == outcome = "throws"

\* fetchWikipediaInfo and parseWikipediaContent catch what they throw
WikiFailureLeaves(outcome) == FALSE

FlowerFailureLeaves_Uncaught(outcome) == outcome = "throws"

\* fetchBirthFlower catches what it throws
FlowerFailureLeaves(outcome) == FALSE

NoticeFailureLeaves_Uncaught(response) == response # "200"

\* main: the post of the error notice is inside a try whose catch only logs
NoticeFailureLeaves(response) == FALSE

\* fetchWikipediaInfo's return value
fetchWikipediaInfo(outcome, parsed) ==
    IF outcome = "ok" THEN parsed ELSE NoWikiInfo

\* fetchBirthFlower's return value, then birthFlower || undefined
fetchBirthFlower(outcome) ==
    IF outcome = "ok" THEN <<"rose">> ELSE Undefined

PostRaises_Always(response) == TRUE

\* postToSlack: the request threw, or the response code is not 200
PostRaises(response) == response # "200"

InitMain ==
    /\ CleanIdle /\ SampleIdle /\ SortIdle /\ FormatIdle /\ ParseIdle
    /\ webhookUrl \in {"null", "url"}
    /\ mainPc = "php"
    /\ requests = <<>> /\ posts = <<>>
    /\ phpOutcome = "none" /\ wikiOutcome = "none" /\ flowerOutcome = "none"
    /\ digestResponse = "none" /\ noticeResponse = "none"
    /\ phpInfo = <<>> /\ wikiInfo = NoWikiInfo
    /\ todayInfo = NullInfo /\ message = NotCalled
    /\ errorLog = <<>> /\ escaped = FALSE

otherVars == <<cleanVars, sampleVars, sortVars, formatVars, parseVars>>

PostsOnNull_Notice == <<"notice">>

\* main: if (!todayInfo) { log; return; } calls postToSlack for nothing
PostsOnNull == <<>>

\* fetchTodayInfo's catch returns null and main returns
ReturnNull(why) ==
    /\ todayInfo' = NullInfo
    /\ message' = NotCalled
    /\ errorLog' = errorLog \o <<why, "Could not fetch today's information">>
    /\ posts' = posts \o PostsOnNull
    /\ mainPc' = "done"
    /\ UNCHANGED escaped

\* UrlFetchApp.fetch(phpUrl) and parsePhpTodayInfo
FetchPhp ==
    /\ mainPc = "php"
    /\ requests' = Append(requests, "php")
    /\ \E outcome \in {"throws", "ok"} :
          /\ phpOutcome' = outcome
          /\ IF PhpFailureEndsRun(outcome)
             THEN /\ phpInfo' = <<>>
                  /\ ReturnNull("Error fetching today's information")
             ELSE /\ \E n \in 0..MaxEvents :
                        phpInfo' = IF outcome = "ok" THEN Entries(n) ELSE <<>>
                  /\ mainPc' = "wiki"
                  /\ UNCHANGED <<todayInfo, message, errorLog, posts, escaped>>
    /\ UNCHANGED <<webhookUrl, wikiOutcome, flowerOutcome, digestResponse,
                   noticeResponse, wikiInfo, otherVars>>

\* fetchWikipediaInfo()
FetchWiki ==
    /\ mainPc = "wiki"
    /\ requests' = Append(requests, "wiki")
    /\ \E outcome \in {"throws", "notfound", "nocontent", "parsethrows", "ok"} :
          /\ wikiOutcome' = outcome
          /\ IF WikiFailureLeaves(outcome)
             THEN /\ wikiInfo' = NoWikiInfo
                  /\ ReturnNull("Error fetching today's information")
             ELSE /\ \E parsed \in IF outcome = "ok" THEN ParsedWikiInfos
                                                       ELSE {NoWikiInfo} :
                        wikiInfo' = fetchWikipediaInfo(outcome, parsed)
                  /\ errorLog' = IF outcome \in {"throws", "parsethrows"}
                                  THEN Append(errorLog, "Error fetching Wikipedia data")
                                  ELSE errorLog
                  /\ mainPc' = "flower"
                  /\ UNCHANGED <<todayInfo, message, posts, escaped>>
    /\ UNCHANGED <<webhookUrl, phpOutcome, flowerOutcome, digestResponse,
                   noticeResponse, phpInfo, otherVars>>

\* fetchBirthFlower(), the rest of fetchTodayInfo, formatSlackMessage, and
\* postToSlack(message) up to its request
FetchFlower ==
    /\ mainPc = "flower"
    /\ requests' = Append(requests, "flower")
    /\ \E historical \in SampleThenSort(wikiInfo.historical) :
       \E births \in SampleThenSort(wikiInfo.births) :
       \E outcome \in {"throws", "nofield", "ok"} :
          /\ flowerOutcome' = outcome
          /\ IF FlowerFailureLeaves(outcome)
             THEN ReturnNull("Error fetching today's information")
             ELSE   LET built == [date |-> <<"date">>,
                                  events |-> phpInfo,
                                  historical |-> historical,
                                  births |-> births,
                                  birthFlower |-> fetchBirthFlower(outcome)]
                        flowerLog == IF outcome = "throws"
                                     THEN <<"Error fetching birth flower data">>
                                     ELSE <<>>
                    IN  /\ todayInfo' = built
                        /\ message' = formatSlackMessage(built)
                        /\ IF ConfigMissing(webhookUrl)
                           THEN /\ posts' = posts \o <<"digest", "notice">>
                                /\ errorLog' = errorLog \o flowerLog \o
                                      << "SLACK_WEBHOOK_URL is not set",
                                         "Error in main execution",
                                         "SLACK_WEBHOOK_URL is not set",
                                         "Error posting error message to Slack" >>
                                /\ escaped' = NoticeFailureLeaves("throws")
                                /\ mainPc' = "done"
                           ELSE /\ posts' = Append(posts, "digest")
                                /\ errorLog' = errorLog \o flowerLog
                                /\ mainPc' = "postDigest"
                                /\ UNCHANGED escaped
    /\ UNCHANGED <<webhookUrl, phpOutcome, wikiOutcome, digestResponse,
                   noticeResponse, phpInfo, wikiInfo, otherVars>>

\* postToSlack(message): the request, and main's catch up to the request of
\* postToSlack(notice)
PostDigest ==
    /\ mainPc = "postDigest"
    /\ requests' = Append(requests, "slack")
    /\ \E response \in {"200", "non200", "throws"} :
          /\ digestResponse' = response
          /\ IF ~PostRaises(response)
             THEN /\ mainPc' = "done"
                  /\ UNCHANGED <<posts, errorLog, escaped>>
             ELSE IF ConfigMissing(webhookUrl)
             THEN /\ posts' = Append(posts, "notice")
                  /\ errorLog' = errorLog \o
                        << "Error posting to Slack", "Error in main execution",
                           "SLACK_WEBHOOK_URL is not set",
                           "Error posting error message to Slack" >>
                  /\ escaped' = NoticeFailureLeaves("throws")
                  /\ mainPc' = "done"
             ELSE /\ posts' = Append(posts, "notice")
                  /\ errorLog' = errorLog \o
                        <<"Error posting to Slack", "Error in main execution">>
                  /\ mainPc' = "postNotice"
                  /\ UNCHANGED escaped
    /\ UNCHANGED <<webhookUrl, phpOutcome, wikiOutcome, flowerOutcome,
                   noticeResponse, phpInfo, wikiInfo, todayInfo, message, otherVars>>

\* postToSlack(notice): the request, and main's inner catch
PostNotice ==
    /\ mainPc = "postNotice"
    /\ requests' = Append(requests, "slack")
    /\ \E response \in {"200", "non200", "throws"} :
          /\ noticeResponse' = response
          /\ errorLog' = IF ~PostRaises(response) THEN errorLog
                          ELSE errorLog \o << "Error posting to Slack",
                                              "Error posting error message to Slack" >>
          /\ escaped' = NoticeFailureLeaves(response)
    /\ mainPc' = "done"
    /\ UNCHANGED <<webhookUrl, posts, phpOutcome, wikiOutcome, flowerOutcome,
                   digestResponse, phpInfo, wikiInfo, todayInfo, message, otherVars>>

NextMain == FetchPhp \/ FetchWiki \/ FetchFlower \/ PostDigest \/ PostNotice

SpecMain == InitMain /\ [][NextMain]_vars

Failed(response) == response \in {"non200", "throws"}

\* C5: when the anniversary page was fetched, a failing wiki fetch or parse
\* or a failing flower lookup does not end the run: a digest is returned and
\* posted, with empty wiki lists or without a flower (and then without a
\* flower section), and with what the other sources gave.
C5_SecondaryFailureDegrades ==
    (phpOutcome = "ok" /\ flowerOutcome # "none") =>
        /\ todayInfo # NullInfo
        /\ message # NotCalled
        /\ posts # <<>> /\ posts[1] = "digest"
        /\ todayInfo.events = phpInfo
        /\ wikiOutcome # "ok" =>
              todayInfo.historical = <<>> /\ todayInfo.births = <<>>
        /\ Len(todayInfo.historical) = Min(Len(wikiInfo.historical), SampleSize)
        /\ Len(todayInfo.births) = Min(Len(wikiInfo.births), SampleSize)
        /\ \A k \in 1..Len(todayInfo.historical) :
              Occurrences(wikiInfo.historical, todayInfo.historical[k]) > 0
        /\ \A k \in 1..Len(todayInfo.births) :
              Occurrences(wikiInfo.births, todayInfo.births[k]) > 0
        /\ flowerOutcome = "ok" => todayInfo.birthFlower = <<"rose">>
        /\ flowerOutcome # "ok" =>
              /\ todayInfo.birthFlower = Undefined
              /\ HeadersOf(message, "birthFlower") = {}

\* the wiki fetch and the flower lookup both threw, and the digest with the
\* anniversaries alone was posted
C5_Witness ==
    /\ phpOutcome = "ok" /\ phpInfo # <<>>
    /\ wikiOutcome = "throws" /\ flowerOutcome = "throws"
    /\ todayInfo.events = phpInfo
    /\ digestResponse = "200"
    /\ mainPc = "done"

\* C6: when the anniversary page fetch throws, fetchTodayInfo returns null,
\* no wiki and no flower request is made, and main neither formats nor posts
\* a digest.
C6_PrimaryFailureAborts ==
    phpOutcome = "throws" =>
        /\ mainPc = "done"
        /\ todayInfo = NullInfo
        /\ requests = <<"php">>
        /\ message = NotCalled
        /\ \A k \in 1..Len(posts) : posts[k] # "digest"

\* a run that ended at the failed page fetch
C6_Witness ==
    /\ phpOutcome = "throws"
    /\ mainPc = "done"
    /\ errorLog[Len(errorLog)] = "Could not fetch today's information"

\* C7 as stated: when the anniversary page fetch fails, main attempts an
\* error notice, and that notice is the only message attempted in the run.
C7_NoticeAfterPrimaryFailure ==
    (phpOutcome = "throws" /\ mainPc = "done") => posts = <<"notice">>

\* C7 amended: when the anniversary page fetch fails, main attempts no
\* message at all: it logs that nothing could be fetched and returns
\* without a call of postToSlack and without a request to the sink.
C7_NoMessageAfterPrimaryFailure ==
    phpOutcome = "throws" =>
        /\ posts = <<>>
        /\ \A k \in 1..Len(requests) : requests[k] # "slack"
        /\ errorLog = << "Error fetching today's information",
                         "Could not fetch today's information" >>
        /\ ~escaped

\* a run with the webhook configured that ended at the failed page fetch
\* with nothing posted
C7_Witness ==
    /\ webhookUrl = "url"
    /\ phpOutcome = "throws"
    /\ mainPc = "done"
    /\ posts = <<>>

\* C8 as stated: with no SLACK_WEBHOOK_URL, the run makes no request to the
\* anniversary, wiki or flower source.
C8_NoFetchWithoutWebhook ==
    Falsy(webhookUrl) =>
        \A k \in 1..Len(requests) : requests[k] \notin {"php", "wiki", "flower"}

\* C8 amended: with no SLACK_WEBHOOK_URL, the run makes no request to the
\* messaging sink and no exception leaves main; the property is read only
\* in postToSlack, so both posts are attempted, and throw, after the three
\* source fetches.
C8_NoSinkRequestWithoutWebhook ==
    Falsy(webhookUrl) =>
        /\ \A k \in 1..Len(requests) : requests[k] # "slack"
        /\ ~escaped
        /\ mainPc \notin {"postDigest", "postNotice"}
        /\ posts # <<>> =>
              /\ posts = <<"digest", "notice">>
              /\ requests = <<"php", "wiki", "flower">>
              /\ mainPc = "done"

\* a run without the property that fetched all three sources and then had
\* both posts throw
C8_Witness ==
    /\ Falsy(webhookUrl)
    /\ requests = <<"php", "wiki", "flower">>
    /\ posts = <<"digest", "notice">>
    /\ mainPc = "done"

SinkRequests == Cardinality({k \in 1..Len(requests) : requests[k] = "slack"})

\* C9: when the digest post fails, main attempts exactly one post of an
\* error notice; when that fails too it is only logged and main returns; no
\* exception leaves main whatever the fetches and posts do.
C9_OneFallbackNothingEscapes ==
    /\ ~escaped
    /\ Occurrences(posts, "notice") <= 1
    /\ Failed(digestResponse) =>
          /\ posts = <<"digest", "notice">>
          /\ mainPc \in {"postNotice", "done"}
          /\ mainPc = "done" => SinkRequests = 2 /\ noticeResponse # "none"
    /\ Failed(noticeResponse) =>
          /\ mainPc = "done"
          /\ errorLog[Len(errorLog)] = "Error posting error message to Slack"

\* the digest post got a non-200 response and the notice post threw
C9_Witness ==
    /\ digestResponse = "non200"
    /\ noticeResponse = "throws"
    /\ mainPc = "done"

\* list is a sample of at most SampleSize of the parsed records, in
\* non-decreasing order of year
SampledThenSorted(list, parsed) ==
    /\ Len(list) = Min(Len(parsed), 5)
    /\ \A k \in 1..Len(list) :
          Occurrences(list, list[k]) <= Occurrences(parsed, list[k])
    /\ \A k \in 1..(Len(list) - 1) : extractYear(list[k]) <= extractYear(list[k + 1])

\* C13: in every digest fetchTodayInfo returns, historical and births are
\* each a sample of min(number parsed, 5) of the parsed wiki records, sorted
\* after the sampling: the list is in non-decreasing order of year.
C13_SampledThenSorted ==
    todayInfo # NullInfo =>
        /\ SampledThenSorted(todayInfo.historical, wikiInfo.historical)
        /\ SampledThenSorted(todayInfo.births, wikiInfo.births)

\* six records were parsed, two of them of the year 500 before the epoch and
\* not in order; the digest holds five, in order, with one of those two
\* left out by the sampling
C13_Witness ==
    /\ todayInfo # NullInfo
    /\ Len(wikiInfo.historical) = 6
    /\ wikiInfo.historical[1] = Label1990
    /\ Occurrences(wikiInfo.historical, LabelBc500) = 2
    /\ todayInfo.historical = <<LabelBc500, Label1990, Label1990, Label1990, Label1990>>

\* C16: a run of main calls postToSlack at most twice: at most once for the
\* digest and then at most once for the error notice; the notice is
\* attempted only after the digest's postToSlack raised an exception (no
\* SLACK_WEBHOOK_URL, a request that threw, or a response code other than
\* 200), and never after a digest post that got 200.
C16_AtMostDigestThenNotice ==
    /\ posts \in {<<>>, <<"digest">>, <<"digest", "notice">>}
    /\ SinkRequests <= Len(posts)
    /\ Occurrences(posts, "notice") = 1 =>
          Falsy(webhookUrl) \/ Failed(digestResponse)
    /\ digestResponse = "200" =>
          /\ posts = <<"digest">>
          /\ noticeResponse = "none"
          /\ mainPc = "done"

\* a run whose digest request threw and whose notice then got 200: two
\* posts, in that order
C16_Witness ==
    /\ mainPc = "done"
    /\ digestResponse = "throws"
    /\ noticeResponse = "200"
    /\ posts = <<"digest", "notice">>
    /\ SinkRequests = 2

====
